---------------------------- MODULE Spec2Model ----------------------------
(***************************************************************************)
(* A model of the handbook scraper of UniTracker (scripts' scraper, kept   *)
(* in src/unnamed/part_000) and of its API server                          *)
(* (src/server/handbook-api.mjs).                                          *)
(*                                                                         *)
(* The specifications of this module:                                      *)
(*   SpecFetch  one call of fetchWithRetry, attempt by attempt;            *)
(*   SpecPure   the pure helpers of the scraper, applied to bounded        *)
(*              inputs;                                                    *)
(*   SpecConfig the configuration read from command line and environment;  *)
(*   Spec       one execution of run(): pagination, deduplication, the     *)
(*              asyncPool over the candidates, sort, hash and write;       *)
(*   SpecPaging the pagination phase of run() with more search pages;      *)
(*   SpecServer the API server answering a bounded number of requests.     *)
(***************************************************************************)
EXTENDS Integers, Sequences, FiniteSets, TLC

VARIABLES
    \* ---- fetchWithRetry (SpecFetch) ----
    f_pc,        \* "idle" | "attempt" | "backoff" | "returned" | "raised"
    f_retries,   \* the retries option of the call
    f_attempt,   \* the local variable attempt
    f_log,       \* the outcome of every HTTP attempt made so far, in order
    f_sleeps,    \* the backoff waits made so far, in ms, in order
    f_result,    \* the text returned, or None
    f_error,     \* the error raised, or None
    \* ---- the pure helpers (SpecPure) ----
    p_fn,        \* the helper under check, "off" outside SpecPure
    p_in,        \* its input
    p_out,       \* None, or [value |-> what the helper returned]
    \* ---- run() (Spec) ----
    concurrency,    \* the constant concurrency, line 27
    onlySemester1,  \* the constant onlySemester1, line 29
    maxPagesArg,    \* the constant maxPagesArg, lines 24-26
    rpc,            \* where run() is: "off" | "start" | "paging" | "dedup" |
                    \*   "pool" | "finish" | "done" | "crashed"
    maxPage,        \* the local maxPage
    page,           \* the loop variable page
    searchFetches,  \* the search pages fetched so far, in order
    searchItems,    \* the array searchItems
    itemsList,      \* the array itemsList
    poolpc,         \* where asyncPool is: "off" | "loop" | "race" | "all" | "returned"
    nextIdx,        \* the place in itemsList of the next item of asyncPool's loop
    executing,      \* the Set executing, as the codes of its promises' items
    w,              \* per code, the worker of its candidate
    processed,      \* the counter processed
    skipped,        \* the counter skipped
    results,        \* the array results
    pushOrder,      \* history: the codes in the order their records were pushed
    output,         \* the payload written to outputPath, or None
    writes,         \* the number of writeFile calls that wrote the file
    exit,           \* None, or [code, cause] once the process has ended
    \* ---- the API server, src/server/handbook-api.mjs (SpecServer) ----
    REFRESH_TOKEN,  \* the constant REFRESH_TOKEN, line 11
    reqs,           \* per request, where its handler is and what it answered
    cache,          \* the variable cache, lines 16-20
    refreshPromise, \* the variable refreshPromise, line 21: None, or the pending
                    \*   promise as [owner |-> the request that made it]
    proc,           \* the running scraper subprocesses, each with its waiters
    spawned,        \* history: the requests that spawned a subprocess, in order
    dataFile        \* the file at DATA_PATH: [exists, mtimeMs, version]

fetchVars == <<f_pc, f_retries, f_attempt, f_log, f_sleeps, f_result, f_error>>
pureVars == <<p_fn, p_in, p_out>>
configVars == <<concurrency, onlySemester1, maxPagesArg>>
searchVars == <<maxPage, page, searchFetches, searchItems>>
poolVars == <<poolpc, nextIdx, executing>>
workVars == <<w, processed, skipped, results, pushOrder>>
endVars == <<output, writes, exit>>
crawlVars == <<configVars, rpc, searchVars, itemsList, poolVars, workVars, endVars>>

serverVars == <<REFRESH_TOKEN, reqs, cache, refreshPromise, proc, spawned, dataFile>>

vars == <<fetchVars, pureVars, crawlVars, serverVars>>

\* What an action of one specification leaves alone.
outsideFetch == <<pureVars, crawlVars, serverVars>>
outsidePure == <<fetchVars, crawlVars, serverVars>>
outsideCrawl == <<fetchVars, pureVars, serverVars>>
outsideServer == <<fetchVars, pureVars, crawlVars>>

None == [none |-> TRUE]

(***************************************************************************)
(* Bounds of the model.                                                    *)
(***************************************************************************)
MaxRetries == 3

(***************************************************************************)
(* fetchWithRetry, src/unnamed/part_000 lines 55-81.                       *)
(*                                                                         *)
(* One HTTP attempt ends in one of two ways: the await of fetch() or of    *)
(* response.text() rejects (a transport error), or a response with a       *)
(* status and a body text is received.                                     *)
(***************************************************************************)
Statuses == {200, 204, 304, 404, 429, 499, 500, 503}

Outcomes ==
    {[kind |-> "neterr", status |-> 0]}
        \cup {[kind |-> "http", status |-> s] : s \in Statuses}

\* response.ok of the fetch API: the status is in 200..299.
ResponseOk(o) == o.status >= 200 /\ o.status <= 299

\* The body text of a received response (one text per status).
BodyText(o) == <<"body", o.status>>

\* The error the try block throws for an outcome, tagged with the attempt that
\* threw it: the transport error itself, or new Error(`HTTP ${status}`).
ErrorOf(o, n) ==
    IF o.kind = "neterr" THEN [error |-> "transport", attempt |-> n]
    ELSE [error |-> <<"HTTP", o.status>>, attempt |-> n]

\* Line 66 with the statuses of 4xx retried as well.
ThrowsForStatus_All4xx(o) == o.status >= 400

\* Line 66: a non-ok response throws when its status is >= 500 or 429.
ThrowsForStatus(o) == o.status >= 500 \/ o.status = 429

\* Lines 58-71: whether the try block of one attempt throws.
AttemptThrows(o) ==
    \/ o.kind = "neterr"
    \/ (o.kind = "http" /\ ~ResponseOk(o) /\ ThrowsForStatus(o))

\* Line 74 with the comparison off by one.
Exhausted_OffByOne(attempt, retries) == attempt >= retries

\* Line 74: if (attempt > retries) throw error.
Exhausted(attempt, retries) == attempt > retries

\* The call: fetchWithRetry(url, {retries}).
FetchCall ==
    /\ f_pc = "idle"
    /\ f_pc' = "attempt"
    /\ UNCHANGED <<f_retries, f_attempt, f_log, f_sleeps, f_result, f_error, outsideFetch>>

\* Lines 57-77: the loop test, one HTTP attempt and what follows from its outcome.
FetchAttempt ==
    /\ f_pc = "attempt"
    /\ f_attempt <= f_retries
    /\ \E o \in Outcomes :
        /\ f_log' = Append(f_log, o)
        /\ IF AttemptThrows(o)
           THEN /\ f_attempt' = f_attempt + 1
                /\ IF Exhausted(f_attempt + 1, f_retries)
                   THEN /\ f_pc' = "raised"
                        /\ f_error' = ErrorOf(o, Len(f_log) + 1)
                   ELSE /\ f_pc' = "backoff"
                        /\ f_error' = f_error
                /\ f_result' = f_result
           ELSE /\ f_pc' = "returned"
                /\ f_result' = BodyText(o)
                /\ UNCHANGED <<f_attempt, f_error>>
    /\ UNCHANGED <<f_retries, f_sleeps, outsideFetch>>

\* Line 77: await sleep(500 * attempt), then the loop goes round.
FetchBackoff ==
    /\ f_pc = "backoff"
    /\ f_sleeps' = Append(f_sleeps, 500 * f_attempt)
    /\ f_pc' = "attempt"
    /\ UNCHANGED <<f_retries, f_attempt, f_log, f_result, f_error, outsideFetch>>

\* Lines 57, 80: the loop test fails and the function returns ''.
FetchFallThrough ==
    /\ f_pc = "attempt"
    /\ ~(f_attempt <= f_retries)
    /\ f_pc' = "returned"
    /\ f_result' = <<"empty">>
    /\ UNCHANGED <<f_retries, f_attempt, f_log, f_sleeps, f_error, outsideFetch>>

\* The variables of the other specifications, at rest.
PureOff == p_fn = "off" /\ p_in = None /\ p_out = None

CrawlOff ==
    /\ concurrency = 0 /\ onlySemester1 = FALSE /\ maxPagesArg = 0
    /\ rpc = "off" /\ maxPage = 0 /\ page = 0
    /\ searchFetches = <<>> /\ searchItems = <<>> /\ itemsList = <<>>
    /\ poolpc = "off" /\ nextIdx = 0 /\ executing = {}
    /\ w = None /\ processed = 0 /\ skipped = 0
    /\ results = <<>> /\ pushOrder = <<>>
    /\ output = None /\ writes = 0 /\ exit = None

ServerOff ==
    /\ REFRESH_TOKEN = None /\ reqs = None /\ cache = None
    /\ refreshPromise = None /\ proc = "off" /\ spawned = <<>> /\ dataFile = None

InitFetch ==
    /\ PureOff
    /\ CrawlOff
    /\ ServerOff
    /\ f_pc = "idle"
    /\ f_retries \in -1 .. MaxRetries
    /\ f_attempt = 0
    /\ f_log = <<>>
    /\ f_sleeps = <<>>
    /\ f_result = None
    /\ f_error = None

NextFetch ==
    \/ FetchCall
    \/ FetchAttempt
    \/ FetchBackoff
    \/ FetchFallThrough

SpecFetch == InitFetch /\ [][NextFetch]_vars

(***************************************************************************)
(* Claims about fetchWithRetry.                                            *)
(***************************************************************************)
FetchEnded == f_pc \in {"returned", "raised"}

AllAttemptsThrew == \A i \in 1 .. Len(f_log) : AttemptThrows(f_log[i])

\* C1: for every retries value r >= 0, a call whose every attempt fails
\* retryably (transport error, status >= 500, or 429) makes exactly r + 1 HTTP
\* attempts and then raises the error of the last attempt; no call ever makes
\* more than r + 1 attempts.
C1_RetryBound ==
    f_retries >= 0 =>
        /\ Len(f_log) <= f_retries + 1
        /\ (FetchEnded /\ AllAttemptsThrew) =>
              /\ f_pc = "raised"
              /\ Len(f_log) = f_retries + 1
              /\ f_error = ErrorOf(f_log[Len(f_log)], Len(f_log))
        /\ f_pc = "raised" => (AllAttemptsThrew /\ Len(f_log) = f_retries + 1)

C1_Witness ==
    /\ f_pc = "raised"
    /\ f_retries = 2
    /\ Len(f_log) = 3
    /\ f_log[1].status = 503
    /\ f_log[2].kind = "neterr"
    /\ f_log[3].status = 429
    /\ f_error = [error |-> <<"HTTP", 429>>, attempt |-> 3]

\* A received response whose status is not 2xx, not >= 500 and not 429.
PassedThrough(o) ==
    o.kind = "http" /\ ~ResponseOk(o) /\ ~(o.status >= 500) /\ o.status # 429

\* C2: an attempt that receives a non-2xx status that is neither >= 500 nor 429
\* ends the call: the body text of that response is returned, no error is
\* raised, and no attempt or backoff wait follows it.
C2_PassThrough ==
    \A i \in 1 .. Len(f_log) :
        PassedThrough(f_log[i]) =>
            /\ i = Len(f_log)
            /\ f_pc = "returned"
            /\ f_result = BodyText(f_log[i])
            /\ f_error = None
            /\ Len(f_sleeps) = i - 1

C2_Witness ==
    /\ f_pc = "returned"
    /\ Len(f_log) = 2
    /\ f_log[1].status = 500
    /\ f_log[2].status = 404
    /\ f_result = <<"body", 404>>
    /\ f_sleeps = <<500>>

(***************************************************************************)
(* The pure helpers of the scraper.                                        *)
(*                                                                         *)
(* A parsed document is seen through the one sibling list the parsers walk:*)
(* a sequence of nodes [tag, sem1, emails, trs].  sem1 says whether the    *)
(* node's text includes "semester 1" (compared in lower case); emails is   *)
(* the sequence of address-shaped tokens of the node's text; trs are the   *)
(* tr rows of a table node in document order, each [section, cells] with  *)
(* section "thead" or "tbody" (the HTML parser puts every row outside a    *)
(* thead into a tbody) and cells a sequence of [tag, text], tag "th" or    *)
(* "td".  A cell text is already in cleanText's normal form; "" is the     *)
(* empty text.                                                             *)
(***************************************************************************)
MaxTrs == 2
MaxCells == 1
MaxNodes == 3
MaxStubs == 4

RECURSIVE SeqsUpTo(_, _)
\* All sequences over S of length 0..n.
SeqsUpTo(S, n) ==
    IF n = 0 THEN {<<>>}
    ELSE LET shorter == SeqsUpTo(S, n - 1)
         IN  shorter \cup {Append(q, x) : q \in {r \in shorter : Len(r) = n - 1}, x \in S}

\* f over every element of sequence s, in order.
MapSeq(s, F(_)) == [i \in 1 .. Len(s) |-> F(s[i])]

RECURSIVE FlattenSeq(_)
FlattenSeq(ss) == IF ss = <<>> THEN <<>> ELSE Head(ss) \o FlattenSeq(Tail(ss))

SeqRange(s) == {s[i] : i \in 1 .. Len(s)}

\* ---- deduplication, lines 237-242 ----

\* The uppercase subject codes, as their rank in ascending order of
\* localeCompare (which, on upper-case letters and digits, is the order of
\* the characters).
NumCodes == 2
Codes == 1 .. NumCodes

RECURSIVE MapSetAll(_, _, _)
\* uniqueItems after searchItems.forEach(item => uniqueItems.set(item.code, item))
\* started from keys (the Map's keys in insertion order) and vals (its values):
\* set() of a present key replaces the value and keeps the key's place.
MapSetAll(keys, vals, items) ==
    IF items = <<>> THEN [keys |-> keys, vals |-> vals]
    ELSE LET item == Head(items)
         IN  IF item.code \in SeqRange(keys)
             THEN MapSetAll(keys, [vals EXCEPT ![item.code] = item], Tail(items))
             ELSE MapSetAll(Append(keys, item.code),
                            [c \in DOMAIN vals \cup {item.code} |->
                                IF c = item.code THEN item ELSE vals[c]],
                            Tail(items))

RECURSIVE MapSetFirst(_, _, _)
\* The same with a present key left alone (first write wins).
MapSetFirst(keys, vals, items) ==
    IF items = <<>> THEN [keys |-> keys, vals |-> vals]
    ELSE LET item == Head(items)
         IN  IF item.code \in SeqRange(keys)
             THEN MapSetFirst(keys, vals, Tail(items))
             ELSE MapSetFirst(Append(keys, item.code),
                              [c \in DOMAIN vals \cup {item.code} |->
                                  IF c = item.code THEN item ELSE vals[c]],
                              Tail(items))

Dedup_FirstWins(stubs) ==
    LET m == MapSetFirst(<<>>, << >>, stubs)
    IN  [i \in 1 .. Len(m.keys) |-> m.vals[m.keys[i]]]

\* Lines 237-242 with every stub kept.
Dedup_Off(stubs) == stubs

\* Lines 237-242: itemsList = [...uniqueItems.values()].
Dedup(stubs) ==
    LET m == MapSetAll(<<>>, << >>, stubs)
    IN  [i \in 1 .. Len(m.keys) |-> m.vals[m.keys[i]]]

\* ---- parseAssessmentTables, lines 133-176 ----

Cells == {[tag |-> "th", text |-> "A"], [tag |-> "td", text |-> "A"],
          [tag |-> "td", text |-> ""]}
Trs == [section : {"thead", "tbody"}, cells : SeqsUpTo(Cells, MaxCells)]

IsTh(cell) == cell.tag = "th"
IsTd(cell) == cell.tag = "td"
InThead(tr) == tr.section = "thead"
InTbody(tr) == tr.section = "tbody"
CellText(cell) == cell.text

\* Lines 144-154: the th texts of the thead; when there are none, the th and td
\* texts of the table's first tr.
TableHeaders(trs) ==
    LET fromThead == FlattenSeq(MapSeq(SelectSeq(trs, InThead),
                                       LAMBDA tr : SelectSeq(tr.cells, IsTh)))
    IN  IF fromThead # <<>> THEN MapSeq(fromThead, CellText)
        ELSE IF trs = <<>> THEN <<>>
        ELSE MapSeq(trs[1].cells, CellText)

\* Line 161: headers[index] || `Column ${index + 1}` (index counted from 1 here).
ColumnKey(headers, index) ==
    IF index <= Len(headers) /\ headers[index] # ""
    THEN <<"label", headers[index]>>
    ELSE <<"Column", index>>

\* Lines 157-164: the rowData object of one body row: its td texts under their
\* keys, a later cell replacing an earlier one of the same key.
RowData(headers, tr) ==
    LET tds == SelectSeq(tr.cells, IsTd)
        keys == {ColumnKey(headers, i) : i \in 1 .. Len(tds)}
        lastOf(k) == CHOOSE i \in 1 .. Len(tds) :
                        /\ ColumnKey(headers, i) = k
                        /\ \A j \in 1 .. Len(tds) : ColumnKey(headers, j) = k => j <= i
    IN  [k \in keys |-> tds[lastOf(k)].text]

HasTd(tr) == SelectSeq(tr.cells, IsTd) # <<>>

\* Lines 155-165: one rowData per tbody row that has a td.
TableRows(trs) ==
    LET headers == TableHeaders(trs)
        body == SelectSeq(trs, LAMBDA tr : InTbody(tr) /\ HasTd(tr))
    IN  MapSeq(body, LAMBDA tr : RowData(headers, tr))

\* Lines 166-171 with the test of line 166 left out.
ParseTable_KeepEmpty(trs) ==
    <<[columns |-> TableHeaders(trs), rows |-> TableRows(trs)]>>

\* Lines 143-172: what one table node adds to tables.
ParseTable(trs) ==
    IF TableRows(trs) # <<>>
    THEN <<[columns |-> TableHeaders(trs), rows |-> TableRows(trs)]>>
    ELSE <<>>

\* Line 142: the walk stops at an h2, h3 or h4.
EndsTableSpan(node) == node.tag \in {"h2", "h3", "h4"}

\* Lines 134-136: an h3 or h4 whose text includes the label.
IsTableHeading(node) == node.tag \in {"h3", "h4"} /\ node.sem1

\* The index of the first TRUE of flags (one flag per node), 0 when there is none.
FirstIndex(flags) ==
    IF \E i \in 1 .. Len(flags) : flags[i]
    THEN CHOOSE i \in 1 .. Len(flags) :
            flags[i] /\ \A j \in 1 .. i - 1 : ~flags[j]
    ELSE 0

\* The siblings after index h up to, not including, the first whose stops flag
\* is TRUE (the while loops of lines 140-174 and 186-191).
SpanAfter(doc, h, stops) ==
    LET rest == SubSeq(doc, h + 1, Len(doc))
        stop == FirstIndex(SubSeq(stops, h + 1, Len(doc)))
    IN  IF stop = 0 THEN rest ELSE SubSeq(rest, 1, stop - 1)

\* Lines 133-176.
parseAssessmentTables(doc) ==
    LET h == FirstIndex(MapSeq(doc, IsTableHeading))
    IN  IF h = 0 THEN <<>>
        ELSE FlattenSeq(MapSeq(
                 SelectSeq(SpanAfter(doc, h, MapSeq(doc, EndsTableSpan)),
                             LAMBDA node : node.tag = "table"),
                 LAMBDA node : ParseTable(node.trs)))

\* ---- extractEmails and parseSemesterEmails, lines 49-53 and 178-194 ----

\* An address-shaped token of a text (a match of the pattern of line 51): the
\* address, and whether the text writes it in capital letters.
Email(addr) == [addr |-> addr, caps |-> FALSE]
EmailCaps(addr) == [addr |-> addr, caps |-> TRUE]

RECURSIVE SetOrder(_, _)
\* [...new Set(list)] appended to the Set's present order acc: every value once,
\* at its first place; values are compared as they are written.
SetOrder(acc, list) ==
    IF list = <<>> THEN acc
    ELSE IF Head(list) \in SeqRange(acc) THEN SetOrder(acc, Tail(list))
    ELSE SetOrder(Append(acc, Head(list)), Tail(list))

\* Lines 49-53: the address-shaped tokens of a text, each once.
extractEmails(tokens) == SetOrder(<<>>, tokens)

\* Line 188: the walk stops at an h5, h3 or h2.
EndsEmailSpan(node) == node.tag \in {"h5", "h3", "h2"}

\* Lines 180-184: an h5 whose text includes the label.
IsEmailHeading(node) == node.tag = "h5" /\ node.sem1

\* Lines 178-194.
parseSemesterEmails(doc) ==
    LET h == FirstIndex(MapSeq(doc, IsEmailHeading))
    IN  IF h = 0 THEN <<>>
        ELSE SetOrder(<<>>, FlattenSeq(MapSeq(SpanAfter(doc, h, MapSeq(doc, EndsEmailSpan)),
                                              LAMBDA node : extractEmails(node.emails))))

\* ---- cleanText and parseOverview, lines 34-47 and 111-126 ----

\* A text is a sequence of characters: a letter, a space or a newline.
Letter == "a"
Sp == " "
Nl == "\n"
Chars == {Letter, Sp, Nl}

\* The characters \s matches.
Ws == {Sp, Nl}

\* The last index of the run of characters of S that starts at index i of t
\* (i - 1 when t[i] is not in S).
RunEnd(t, i, S) ==
    CHOOSE j \in i - 1 .. Len(t) :
        /\ \A k \in i .. j : t[k] \in S
        /\ j = Len(t) \/ t[j + 1] \notin S

\* The patterns of lines 42-45, in the order they are applied.
Patterns == <<"\\s+\\n", "\\n\\s+", "\\s{2,}", "\\n{3,}">>

\* The index of the last character of the match of pattern that starts at
\* index i of t, 0 when there is none; the quantifiers are greedy.
MatchEnd(pattern, t, i) ==
    CASE pattern = "\\s+\\n" ->
            LET ends == {k \in i + 1 .. RunEnd(t, i, Ws) : t[k] = Nl}
            IN  IF ends = {} THEN 0 ELSE CHOOSE k \in ends : \A m \in ends : m <= k
      [] pattern = "\\n\\s+" ->
            IF t[i] = Nl /\ RunEnd(t, i + 1, Ws) >= i + 1 THEN RunEnd(t, i + 1, Ws) ELSE 0
      [] pattern = "\\s{2,}" ->
            IF RunEnd(t, i, Ws) >= i + 1 THEN RunEnd(t, i, Ws) ELSE 0
      [] pattern = "\\n{3,}" ->
            IF RunEnd(t, i, {Nl}) >= i + 2 THEN RunEnd(t, i, {Nl}) ELSE 0

\* What a match of pattern is replaced with.
Replacement(pattern) ==
    CASE pattern = "\\s+\\n" -> <<Nl>>
      [] pattern = "\\n\\s+" -> <<Nl>>
      [] pattern = "\\s{2,}" -> <<Sp>>
      [] pattern = "\\n{3,}" -> <<Nl, Nl>>

RECURSIVE ReplaceAll(_, _, _)
\* t.replace(/pattern/g, replacement) from index i on: the matches are found
\* from left to right, each search starting after the last match.
ReplaceAll(pattern, t, i) ==
    IF i > Len(t) THEN <<>>
    ELSE LET e == MatchEnd(pattern, t, i)
         IN  IF e # 0 THEN Replacement(pattern) \o ReplaceAll(pattern, t, e + 1)
             ELSE <<t[i]>> \o ReplaceAll(pattern, t, i + 1)

\* String.prototype.trim.
Trim(t) ==
    LET inked == {i \in 1 .. Len(t) : t[i] \notin Ws}
    IN  IF inked = {} THEN <<>>
        ELSE SubSeq(t, CHOOSE i \in inked : \A k \in inked : i <= k,
                       CHOOSE i \in inked : \A k \in inked : k <= i)

\* Lines 34-47, for a value that is a string.
cleanText(value) ==
    Trim(ReplaceAll(Patterns[4],
             ReplaceAll(Patterns[3],
                 ReplaceAll(Patterns[2],
                     ReplaceAll(Patterns[1], value, 1), 1), 1), 1))

RECURSIVE SplitBlank(_, _, _)
\* t.split(/\n\n+/) from index i on, chunk being the piece read so far.
SplitBlank(t, i, chunk) ==
    IF i > Len(t) THEN <<chunk>>
    ELSE LET e == RunEnd(t, i, {Nl})
         IN  IF e >= i + 1 THEN <<chunk>> \o SplitBlank(t, e + 1, <<>>)
             ELSE SplitBlank(t, i + 1, Append(chunk, t[i]))

\* Lines 111-126, on the children of the first .course__overview-wrapper:
\* each child is [box, text], box saying that it has the class
\* course__overview-box and text being its text.
parseOverview(children) ==
    FlattenSeq([k \in 1 .. Len(children) |->
        IF children[k].box \/ cleanText(children[k].text) = <<>> THEN <<>>
        ELSE SelectSeq(MapSeq(SplitBlank(cleanText(children[k].text), 1, <<>>), cleanText),
                       LAMBDA chunk : chunk # <<>>)])

(***************************************************************************)
(* SpecPure: each helper applied once to an input drawn from a bounded set.*)
(***************************************************************************)
MaxPages == 2
Hints == {"", "Semester 1", "Semester 2"}

\* Stubs as parseSearchPage returns them. name stands for the entry's name and
\* href: the page and the place on the page it was read from.
StubAt(code, pageNo, k, offered) ==
    [code |-> code, name |-> <<pageNo, k>>, offered |-> offered]

\* The accumulated searchItems of a crawl: every stub tagged with its page,
\* pages in ascending order.
DedupInputs ==
    LET tagged == SeqsUpTo(Codes \X (1 .. MaxPages), MaxStubs)
        ordered == {q \in tagged : \A i \in 1 .. Len(q) - 1 : q[i][2] <= q[i + 1][2]}
    IN  {[i \in 1 .. Len(q) |-> StubAt(q[i][1], q[i][2], i, "")] : q \in ordered}

TableInputs == SeqsUpTo(Trs, MaxTrs)

Td(text) == [tag |-> "td", text |-> text]
Th(text) == [tag |-> "th", text |-> text]

\* Three tables: a header row and a data row; a header row alone; two rows of
\* td cells and no thead.
TableFull == <<[section |-> "thead", cells |-> <<Th("A")>>],
               [section |-> "tbody", cells |-> <<Td("A")>>]>>
TableHeadOnly == <<[section |-> "thead", cells |-> <<Th("A")>>]>>
TableNoHead == <<[section |-> "tbody", cells |-> <<Td("A")>>],
                 [section |-> "tbody", cells |-> <<Td("")>>]>>

Node(tag, sem1, emails, trs) ==
    [tag |-> tag, sem1 |-> sem1, emails |-> emails, trs |-> trs]

TableDocNodes ==
    {Node(t, b, <<>>, <<>>) : t \in {"h2", "h3", "h4", "h5"}, b \in BOOLEAN}
        \cup {Node("p", FALSE, <<>>, <<>>)}
        \cup {Node("table", FALSE, <<>>, trs) : trs \in {TableFull, TableHeadOnly, TableNoHead}}

TableDocInputs == SeqsUpTo(TableDocNodes, MaxNodes)

\* The siblings of a page with contact details: headings of every level, the
\* h5 with or without the label, and paragraphs with addresses.
EmailDocNodes ==
    {Node(t, FALSE, <<>>, <<>>) : t \in {"h1", "h2", "h3", "h4"}}
        \cup {Node("h5", b, <<>>, <<>>) : b \in BOOLEAN}
        \cup {Node("p", FALSE, <<Email(1)>>, <<>>),
              Node("p", FALSE, <<Email(2), EmailCaps(2)>>, <<>>)}

EmailDocInputs == SeqsUpTo(EmailDocNodes, MaxNodes)

\* The texts cleanText is applied to.
MaxChars == 5
TextInputs == SeqsUpTo(Chars, MaxChars)

\* What stands between two chunks of a block's text: a line break, or a line
\* that is blank: empty, holding a space, or followed by another blank line.
Separators == {<<Nl>>, <<Nl, Nl>>, <<Nl, Sp, Nl>>, <<Nl, Nl, Nl>>}

\* The text of k chunks with sep between them.
BlockText(k, sep) ==
    FlattenSeq([i \in 1 .. 2 * k - 1 |-> IF i % 2 = 1 THEN <<Letter>> ELSE sep])

\* The children of the overview wrapper.
MaxChunks == 2
MaxBlocks == 2
OverviewChildren ==
    {[box |-> b, text |-> BlockText(k, sep)] :
        b \in BOOLEAN, k \in 0 .. MaxChunks, sep \in Separators}
OverviewInputs == SeqsUpTo(OverviewChildren, MaxBlocks)

FetchOff ==
    /\ f_pc = "off" /\ f_retries = 0 /\ f_attempt = 0 /\ f_log = <<>>
    /\ f_sleeps = <<>> /\ f_result = None /\ f_error = None

InitPure ==
    /\ FetchOff
    /\ CrawlOff
    /\ ServerOff
    /\ p_out = None
    /\ \/ p_fn = "dedup" /\ p_in \in DedupInputs
       \/ p_fn = "table" /\ p_in \in TableInputs
       \/ p_fn = "tables" /\ p_in \in TableDocInputs
       \/ p_fn = "emails" /\ p_in \in EmailDocInputs
       \/ p_fn = "cleanText" /\ p_in \in TextInputs
       \/ p_fn = "overview" /\ p_in \in OverviewInputs

PureDedup ==
    /\ p_fn = "dedup" /\ p_out = None
    /\ p_out' = [value |-> Dedup(p_in)]
    /\ UNCHANGED <<p_fn, p_in, outsidePure>>

PureParseTable ==
    /\ p_fn = "table" /\ p_out = None
    /\ p_out' = [value |-> ParseTable(p_in)]
    /\ UNCHANGED <<p_fn, p_in, outsidePure>>

PureParseAssessmentTables ==
    /\ p_fn = "tables" /\ p_out = None
    /\ p_out' = [value |-> parseAssessmentTables(p_in)]
    /\ UNCHANGED <<p_fn, p_in, outsidePure>>

PureParseSemesterEmails ==
    /\ p_fn = "emails" /\ p_out = None
    /\ p_out' = [value |-> parseSemesterEmails(p_in)]
    /\ UNCHANGED <<p_fn, p_in, outsidePure>>

PureCleanText ==
    /\ p_fn = "cleanText" /\ p_out = None
    /\ p_out' = [value |-> cleanText(p_in)]
    /\ UNCHANGED <<p_fn, p_in, outsidePure>>

PureParseOverview ==
    /\ p_fn = "overview" /\ p_out = None
    /\ p_out' = [value |-> parseOverview(p_in)]
    /\ UNCHANGED <<p_fn, p_in, outsidePure>>

NextPure ==
    \/ PureDedup
    \/ PureParseTable
    \/ PureParseAssessmentTables
    \/ PureParseSemesterEmails
    \/ PureCleanText
    \/ PureParseOverview

SpecPure == InitPure /\ [][NextPure]_vars

(***************************************************************************)
(* Claims about the pure helpers.                                          *)
(***************************************************************************)
Applied(fn) == p_fn = fn /\ p_out # None

\* The place of the last stub of code c in the accumulated stubs s.
LastOccurrence(s, c) ==
    CHOOSE i \in 1 .. Len(s) : s[i].code = c /\ \A j \in i + 1 .. Len(s) : s[j].code # c

\* C8: after deduplication every subject code that occurred among the
\* accumulated stubs is represented by exactly one stub, the last occurrence in
\* accumulation order, which is one from the highest-numbered page that holds
\* the code; no other stub is in the result.
C8_DedupLastWins ==
    Applied("dedup") =>
        LET in == p_in
            out == p_out.value
        IN  /\ \A i \in 1 .. Len(in) :
                  Cardinality({k \in 1 .. Len(out) : out[k].code = in[i].code}) = 1
            /\ \A k \in 1 .. Len(out) :
                  /\ \E i \in 1 .. Len(in) : in[i].code = out[k].code
                  /\ out[k] = in[LastOccurrence(in, out[k].code)]
                  /\ \A i \in 1 .. Len(in) :
                        in[i].code = out[k].code => in[i].name[1] <= out[k].name[1]

C8_Witness ==
    /\ Applied("dedup")
    /\ Len(p_in) = 3
    /\ p_in[1].code = 1 /\ p_in[1].name[1] = 1
    /\ p_in[2].code = 2 /\ p_in[2].name[1] = 1
    /\ p_in[3].code = 1 /\ p_in[3].name[1] = 2
    /\ p_out.value = <<p_in[3], p_in[2]>>

\* The tr rows of a table that have a td and are in a tbody.
PopulatedRows(trs) == {i \in 1 .. Len(trs) : InTbody(trs[i]) /\ HasTd(trs[i])}

\* C10: every table parseAssessmentTables returns has at least one row, and a
\* table whose body has no row with cells is left out of the result.
C10_NoEmptyTable ==
    /\ Applied("table") =>
          /\ \A k \in 1 .. Len(p_out.value) : Len(p_out.value[k].rows) >= 1
          /\ PopulatedRows(p_in) = {} => p_out.value = <<>>
          /\ PopulatedRows(p_in) # {} =>
                (Len(p_out.value) = 1
                    /\ Len(p_out.value[1].rows) = Cardinality(PopulatedRows(p_in)))
    /\ Applied("tables") =>
          \A k \in 1 .. Len(p_out.value) : Len(p_out.value[k].rows) >= 1

C10_Witness ==
    /\ Applied("tables")
    /\ Len(p_in) = 3
    /\ p_in[1].tag = "h3" /\ p_in[1].sem1
    /\ p_in[2].tag = "table" /\ p_in[2].trs = TableHeadOnly
    /\ p_in[3].tag = "table" /\ p_in[3].trs = TableFull
    /\ Len(p_out.value) = 1
    /\ p_out.value[1].columns = <<"A">>
    /\ Len(p_out.value[1].rows) = 1

\* The level of a heading tag, 0 for a tag that is no heading.
Level(tag) ==
    CASE tag = "h1" -> 1 [] tag = "h2" -> 2 [] tag = "h3" -> 3
      [] tag = "h4" -> 4 [] tag = "h5" -> 5 [] OTHER -> 0

\* node is a heading of the level of heading, or of a higher one.
EndsSection(node, heading) ==
    Level(node.tag) # 0 /\ Level(node.tag) <= Level(heading.tag)

\* The tables of the siblings after the first matching heading, up to the next
\* heading of equal or higher level.
TablesOfSection(doc) ==
    LET h == FirstIndex(MapSeq(doc, IsTableHeading))
    IN  IF h = 0 THEN <<>>
        ELSE FlattenSeq(MapSeq(
                 SelectSeq(SpanAfter(doc, h, MapSeq(doc, LAMBDA node : EndsSection(node, doc[h]))),
                           LAMBDA node : node.tag = "table"),
                 LAMBDA node : ParseTable(node.trs)))

\* C24 as stated: parseAssessmentTables returns the tables between the first
\* matching heading and the next heading of equal or higher level, so that an
\* h4 after a matched h3 does not end the span.
C24_SpanToEqualOrHigher ==
    Applied("tables") => p_out.value = TablesOfSection(p_in)

\* The siblings after the first matching h5, up to the next heading of the
\* level of an h5 or higher.
ContactSection(doc) ==
    LET h == FirstIndex(MapSeq(doc, IsEmailHeading))
    IN  IF h = 0 THEN <<>>
        ELSE SpanAfter(doc, h, MapSeq(doc, LAMBDA node : EndsSection(node, doc[h])))

\* C25 as stated: every email parseSemesterEmails returns is in the text of a
\* sibling between the first matching h5 and the next heading of level h5 or
\* higher (h1, h2, h3, h4 or h5).
C25_SpanEndsAtAnyHeading ==
    Applied("emails") =>
        \A i \in 1 .. Len(p_out.value) :
            \E k \in 1 .. Len(ContactSection(p_in)) :
                p_out.value[i] \in SeqRange(ContactSection(p_in)[k].emails)

\* A table with no header row: every row is a body row of td cells.
PlainRows(trs) ==
    /\ trs # <<>>
    /\ \A i \in 1 .. Len(trs) :
          /\ InTbody(trs[i])
          /\ trs[i].cells # <<>>
          /\ \A k \in 1 .. Len(trs[i].cells) : IsTd(trs[i].cells[k])

\* C26 as stated: for a table of n rows of cells and no header row, the cells
\* of the first row are the column labels and the n - 1 rows after it are the
\* data rows; the first row is not a data row as well.
C26_LabelRowNotData ==
    (Applied("table") /\ PlainRows(p_in)) =>
        IF Len(p_in) = 1 THEN p_out.value = <<>>
        ELSE /\ Len(p_out.value) = 1
             /\ p_out.value[1].columns = MapSeq(p_in[1].cells, CellText)
             /\ Len(p_out.value[1].rows) = Len(p_in) - 1

\* Index i of t starts a paragraph boundary: a run of white space, after a
\* character that is none, holding two newlines or more (a blank line).
BoundaryAt(t, i) ==
    /\ t[i] \in Ws
    /\ i > 1 /\ t[i - 1] \notin Ws
    /\ RunEnd(t, i, Ws) < Len(t)
    /\ Cardinality({k \in i .. RunEnd(t, i, Ws) : t[k] = Nl}) >= 2

\* t holds a blank line between two non-empty lines.
HasBoundary(t) == \E i \in 1 .. Len(t) : BoundaryAt(t, i)

\* t holds two consecutive newlines and not three.
HasOneBlankLine(t) ==
    /\ \E i \in 1 .. Len(t) - 1 : t[i] = Nl /\ t[i + 1] = Nl
    /\ \A i \in 1 .. Len(t) - 2 : ~(t[i] = Nl /\ t[i + 1] = Nl /\ t[i + 2] = Nl)

\* C27 as stated: a text with a blank line, or a run of blank lines, between
\* two non-empty lines is mapped by cleanText to a text that still has that
\* paragraph boundary, as exactly one blank line (two consecutive newlines).
C27_BlankLineKept ==
    (Applied("cleanText") /\ HasBoundary(p_in)) => HasOneBlankLine(p_out.value)

RECURSIVE Paragraphs(_, _, _)
\* The chunks of t between its paragraph boundaries, from index i on, chunk
\* being the one read so far.
Paragraphs(t, i, chunk) ==
    IF i > Len(t) THEN <<chunk>>
    ELSE IF BoundaryAt(t, i)
         THEN <<chunk>> \o Paragraphs(t, RunEnd(t, i, Ws) + 1, <<>>)
         ELSE Paragraphs(t, i + 1, Append(chunk, t[i]))

\* C28 as stated: parseOverview returns, for each child that is no overview
\* box, one entry per non-empty chunk of its text between blank lines, in
\* order, and no entry is empty.
C28_OneEntryPerChunk ==
    Applied("overview") =>
        /\ p_out.value =
              FlattenSeq([k \in 1 .. Len(p_in) |->
                  IF p_in[k].box THEN <<>>
                  ELSE SelectSeq(MapSeq(Paragraphs(p_in[k].text, 1, <<>>), Trim),
                                 LAMBDA chunk : chunk # <<>>)])
        /\ \A i \in 1 .. Len(p_out.value) : p_out.value[i] # <<>>

(***************************************************************************)
(* The configuration, lines 9-29.                                          *)
(*                                                                         *)
(* process.argv.slice(2) is a sequence of tokens: Flag(k) is the text --k, *)
(* Str(n) a non-empty text that does not start with -- (the numeral n, or  *)
(* a URL or a path named n).  process.env gives, for a variable name, a     *)
(* text (which may be empty) or undefined.                                 *)
(***************************************************************************)
MaxArgs == 2

Options == {"search", "output", "max-pages", "concurrency", "delay-ms", "all-semesters"}

Flag(k) == [flag |-> k]
Str(n) == [str |-> n]
EmptyStr == [empty |-> TRUE]
Undefined == [undefined |-> TRUE]
\* The value true.
Bare == [bool |-> TRUE]
Num(n) == [num |-> n]

ArgTokens == {Flag(k) : k \in Options} \cup {Str(1)}

\* The environment variable that belongs to an option. The script reads the
\* first two; the others are the names such a variable would have.
EnvVar(o) ==
    CASE o = "search" -> "HANDBOOK_SEARCH_URL"
      [] o = "max-pages" -> "HANDBOOK_MAX_PAGES"
      [] o = "output" -> "HANDBOOK_OUTPUT"
      [] o = "concurrency" -> "HANDBOOK_CONCURRENCY"
      [] o = "delay-ms" -> "HANDBOOK_DELAY_MS"
      [] o = "all-semesters" -> "HANDBOOK_ALL_SEMESTERS"

EnvVars == {EnvVar(o) : o \in Options}
EnvVals == {Undefined, EmptyStr, Str(2)}

\* arg.startsWith('--'), line 13.
StartsWithDashes(arg) == "flag" \in DOMAIN arg

\* What JavaScript's || and ?: take for true.
Truthy(v) == v \notin {Undefined, EmptyStr, Num(0)}

\* a || b.
OrElse(a, b) == IF Truthy(a) THEN a ELSE b

\* Number(v) for the values that reach it.
Number(v) ==
    IF v = Bare THEN 1
    ELSE IF v = EmptyStr THEN 0
    ELSE IF "str" \in DOMAIN v THEN v.str
    ELSE v.num

\* map.set(key, value) and map.get(key).
MapSet(map, key, value) ==
    [k \in DOMAIN map \cup {key} |-> IF k = key THEN value ELSE map[k]]
MapGet(map, key) == IF key \in DOMAIN map THEN map[key] ELSE Undefined

RECURSIVE ArgMapFrom(_, _, _)
\* Lines 11-17, from the loop's round i on.
ArgMapFrom(args, i, map) ==
    IF i > Len(args) THEN map
    ELSE IF ~StartsWithDashes(args[i]) THEN ArgMapFrom(args, i + 1, map)
    ELSE LET key == args[i].flag
             value == IF /\ i + 1 <= Len(args)
                         /\ Truthy(args[i + 1])
                         /\ ~StartsWithDashes(args[i + 1])
                      THEN args[i + 1]
                      ELSE Bare
         IN  ArgMapFrom(args, i + 1, MapSet(map, key, value))

\* Lines 10-17: argMap.
ParseArgs(args) == ArgMapFrom(args, 1, << >>)

DefaultSearchUrl == [default |-> "DEFAULT_SEARCH_URL"]
DefaultOutputPath == [default |-> "public/data/handbook-2026-s1.json"]

\* Lines 19-20.
ReadSearchUrl(argMap, env) ==
    OrElse(OrElse(MapGet(argMap, "search"), env["HANDBOOK_SEARCH_URL"]), DefaultSearchUrl)

\* Lines 21-23.
ReadOutputPath(argMap, env) == OrElse(MapGet(argMap, "output"), DefaultOutputPath)

\* Lines 24-26 with the environment asked first.
ReadMaxPages_EnvFirst(argMap, env) ==
    Number(OrElse(OrElse(env["HANDBOOK_MAX_PAGES"], MapGet(argMap, "max-pages")), Num(0)))

\* Lines 24-26.
ReadMaxPages(argMap, env) ==
    Number(OrElse(OrElse(MapGet(argMap, "max-pages"), env["HANDBOOK_MAX_PAGES"]), Num(0)))

\* Line 27.
ReadConcurrency(argMap, env) == Number(OrElse(MapGet(argMap, "concurrency"), Num(4)))

\* Line 28.
ReadDelayMs(argMap, env) == Number(OrElse(MapGet(argMap, "delay-ms"), Num(200)))

\* Line 29.
ReadOnlySemester1(argMap, env) == "all-semesters" \notin DOMAIN argMap

\* Lines 9-29: the constants of the script.
Config(args, env) ==
    LET argMap == ParseArgs(args)
    IN  [searchUrl |-> ReadSearchUrl(argMap, env),
         outputPath |-> ReadOutputPath(argMap, env),
         maxPagesArg |-> ReadMaxPages(argMap, env),
         concurrency |-> ReadConcurrency(argMap, env),
         delayMs |-> ReadDelayMs(argMap, env),
         onlySemester1 |-> ReadOnlySemester1(argMap, env)]

(***************************************************************************)
(* SpecConfig: the configuration read once from a bounded command line and *)
(* environment.  A variable the script does not read is unset or set to a  *)
(* text.                                                                   *)
(***************************************************************************)
InitConfig ==
    /\ FetchOff
    /\ CrawlOff
    /\ ServerOff
    /\ p_fn = "config"
    /\ p_out = None
    /\ p_in \in [args : SeqsUpTo(ArgTokens, MaxArgs),
                 env : {e \in [EnvVars -> EnvVals] :
                           \A o \in Options \ {"search", "max-pages"} :
                               e[EnvVar(o)] # EmptyStr}]

ReadConfig ==
    /\ p_fn = "config" /\ p_out = None
    /\ p_out' = [value |-> Config(p_in.args, p_in.env)]
    /\ UNCHANGED <<p_fn, p_in, outsidePure>>

NextConfig == ReadConfig

SpecConfig == InitConfig /\ [][NextConfig]_vars

\* The places of --k on the command line.
FlagPlaces(args, k) == {i \in 1 .. Len(args) : args[i] = Flag(k)}
FlagGiven(args, k) == FlagPlaces(args, k) # {}
LastPlace(args, k) == CHOOSE i \in FlagPlaces(args, k) : \A j \in FlagPlaces(args, k) : j <= i

\* --k is given with a value: its last occurrence is followed by a text.
FlagHasValue(args, k) ==
    /\ FlagGiven(args, k)
    /\ LastPlace(args, k) < Len(args)
    /\ args[LastPlace(args, k) + 1] \in {Str(1)}
FlagValue(args, k) == args[LastPlace(args, k) + 1]

\* The option's environment variable is set to a non-empty text.
EnvSet(env, o) == env[EnvVar(o)] \notin {Undefined, EmptyStr}

ValuedOptions == Options \ {"all-semesters"}

\* The constant the script holds for a valued option.
OptionValue(cfg, o) ==
    CASE o = "search" -> cfg.searchUrl
      [] o = "output" -> cfg.outputPath
      [] o = "max-pages" -> cfg.maxPagesArg
      [] o = "concurrency" -> cfg.concurrency
      [] o = "delay-ms" -> cfg.delayMs

\* The constant a text gives for an option: the text itself, or its number.
FromText(o, t) == IF o \in {"search", "output"} THEN t ELSE t.str

DefaultOf(o) ==
    CASE o = "search" -> DefaultSearchUrl
      [] o = "output" -> DefaultOutputPath
      [] o = "max-pages" -> 0
      [] o = "concurrency" -> 4
      [] o = "delay-ms" -> 200

EnvBacked == {"search", "max-pages"}

MaxLimit == 2
MaxEntries == 1
Clock == {1, 2}

\* What a fetchWithRetry call does: it raises, or returns a text.
Raised == [raised |-> TRUE]
Got(text) == [raised |-> FALSE, text |-> text]
Responses(texts) == {Raised} \cup {Got(t) : t \in texts}

\* ---- the search pages, lines 83-109 ----

\* The code text of a search entry: rank 0 is an empty text, lower says that
\* the text is written in lower case.
RawCodes ==
    {[rank |-> 0, lower |-> FALSE]} \cup [rank : Codes, lower : BOOLEAN]
Entries == [code : RawCodes, offered : Hints]

\* A search page: its .search-result-item entries and the numbers N of the
\* page=N tokens of its text.
SearchHtmls(pageNo) ==
    [pageNo : {pageNo}, entries : SeqsUpTo(Entries, MaxEntries),
     links : SUBSET (0 .. MaxPages)]

SetMax(S) == CHOOSE x \in S : \A y \in S : y <= x

\* Lines 83-87.
parseMaxPage(html) == IF html.links = {} THEN 1 ELSE SetMax(html.links)

\* Lines 89-109: one stub per entry that has a code, the code in upper case.
parseSearchPage(html) ==
    LET withCode == SelectSeq([k \in 1 .. Len(html.entries) |->
                                  [k |-> k, e |-> html.entries[k]]],
                              LAMBDA x : x.e.code.rank # 0)
    IN  MapSeq(withCode,
               LAMBDA x : StubAt(x.e.code.rank, html.pageNo, x.k, x.e.offered))

\* ---- the pages of one subject ----

\* /semester\s*1/i.test(text), lines 251 and 271.
MentionsSemester1(text) == text = "Semester 1"

\* A subject page, by the text of its .course__overview-box.
DetailPages == [availability : Hints]

\* An assessment page with a Semester 1 table and contact, one with the table
\* and no contact, one with neither (an error page); a dates-times page whose
\* Semester 1 contact text holds one address three times, once in capitals.
DocFull == <<Node("h3", TRUE, <<>>, <<>>), Node("table", FALSE, <<>>, TableFull),
             Node("h5", TRUE, <<>>, <<>>), Node("p", FALSE, <<Email(1)>>, <<>>)>>
DocTables == <<Node("h4", TRUE, <<>>, <<>>), Node("table", FALSE, <<>>, TableHeadOnly),
               Node("table", FALSE, <<>>, TableNoHead)>>
DocBare == <<Node("p", FALSE, <<>>, <<>>)>>
DocContact == <<Node("h5", TRUE, <<>>, <<>>),
                Node("p", FALSE, <<Email(2), Email(2), EmailCaps(2)>>, <<>>)>>

AssessDocs == {DocFull, DocTables, DocBare}
DatesDocs == {DocContact, DocBare}

\* Lines 128-131, 267-268: the availability read from what the detail fetch gave.
Availability(detail) == IF detail.raised THEN "" ELSE detail.text.availability

\* Lines 252 and 271 with the test of the pattern not negated.
FilteredOut_Inverted(only, text) == only /\ text # "" /\ MentionsSemester1(text)

\* Lines 252 and 271: the semester filter on a text.
FilteredOut(only, text) == only /\ text # "" /\ ~MentionsSemester1(text)

\* Lines 260-274 with the return of line 264 left out.
DetailVerdict_NoReturn(only, detail) ==
    IF ~detail.raised /\ FilteredOut(only, Availability(detail)) THEN "skip"
    ELSE "continue"

\* Lines 260-274 with the test of lines 271-274 left out.
DetailVerdict_NoRecheck(only, detail) ==
    IF detail.raised THEN "abandon" ELSE "continue"

\* Lines 260-274: what the worker does after the detail fetch.
DetailVerdict(only, detail) ==
    IF detail.raised THEN "abandon"
    ELSE IF FilteredOut(only, Availability(detail)) THEN "skip"
    ELSE "continue"

\* Lines 280-290: assessmentTables and instructorEmails after the try block.
\* parseAssessmentTables on each assessment page there is, line 280.
TablesByDoc == [doc \in AssessDocs |-> parseAssessmentTables(doc)]

TablesOf(assess) == IF assess.raised THEN <<>> ELSE TablesByDoc[assess.text]
EmailsOf(fetched) == IF fetched.raised THEN <<>> ELSE parseSemesterEmails(fetched.text)

\* Lines 283-292 with the catch of line 288 ending the worker.
AssessVerdict_Abandon(assess) ==
    IF assess.raised THEN "abandon"
    ELSE IF EmailsOf(assess) = <<>> THEN "dates" ELSE "emit"

\* Lines 283-292 with the test of line 292 left out.
AssessVerdict_AlwaysDates(assess) == "dates"

\* Lines 283-292: what the worker does after the assessment fetch.
AssessVerdict(assess) == IF EmailsOf(assess) = <<>> THEN "dates" ELSE "emit"

\* Lines 304-320: the record pushed (the fields that are constants, and those
\* read from the detail page beside availability, are left out).
Record(item, detail, assess, emails) ==
    [code |-> item.code, name |-> item.name,
     availability |-> Availability(detail),
     tables |-> TablesOf(assess),
     instructorEmails |-> emails]

\* ---- sort, hash and write, lines 327-352 ----

\* a.code.localeCompare(b.code) < 0, with its operands exchanged.
CodeBefore_Reversed(a, b) == a.code > b.code

\* a.code.localeCompare(b.code) < 0, line 327.
CodeBefore(a, b) == a.code < b.code

RECURSIVE InsertSorted(_, _)
\* rec put into the sorted array after every element not after it (the sort is
\* stable).
InsertSorted(sorted, rec) ==
    IF sorted = <<>> THEN <<rec>>
    ELSE IF CodeBefore(rec, Head(sorted)) THEN <<rec>> \o sorted
    ELSE <<Head(sorted)>> \o InsertSorted(Tail(sorted), rec)

RECURSIVE SortFrom(_, _)
SortFrom(sorted, rest) ==
    IF rest = <<>> THEN sorted
    ELSE SortFrom(InsertSorted(sorted, Head(rest)), Tail(rest))

\* Line 327 left out.
SortByCode_Skipped(recs) == recs

\* Line 327: results.sort((a, b) => a.code.localeCompare(b.code)).
SortByCode(recs) == SortFrom(<<>>, recs)

\* JSON.stringify(results): the records in order, each field in the order the
\* record was written in.
JSONStringify(recs) ==
    MapSeq(recs, LAMBDA r : <<r.code, r.name, r.availability, r.tables, r.instructorEmails>>)

\* Lines 330-334: the first 12 hex digits of the SHA-256 of a text, as an
\* ideal hash: a value that depends on the text alone.
Sha256Hex12(text) == [sha256 |-> text]

\* Lines 336-350.
Payload(now, recs, found, skip) ==
    [generatedAt |-> now,
     version |-> Sha256Hex12(JSONStringify(recs)),
     stats |-> [totalFound |-> found, totalSaved |-> Len(recs), skipped |-> skip],
     items |-> recs]

\* ---- asyncPool, lines 198-212 ----

\* Line 207 with > for >=.
AtLimit_Strict(size, limit) == size > limit

\* Line 207: executing.size >= limit.
AtLimit(size, limit) == size >= limit

Worker(pc, end, detail, assess, dates) ==
    [pc |-> pc, end |-> end, detail |-> detail, assess |-> assess, dates |-> dates]

Admitted == {itemsList[i].code : i \in 1 .. nextIdx - 1}

\* Line 211 with the array returned as it is, not awaited.
AllSettled_NoWait == TRUE

\* Line 211: Promise.all(results) is fulfilled once every promise is.
AllSettled == \A c \in Admitted : w[c].pc = "done"

\* The item of itemsList with code c.
ItemOf(c) == itemsList[CHOOSE i \in 1 .. Len(itemsList) : itemsList[i].code = c]

\* run() is suspended in an await, so that a worker's continuation can run.
MainAwaits == rpc \in {"pool", "finish"} /\ poolpc # "loop"

\* Lines 205-208 with a pending Promise.race(executing) left pending.
Settle_NoWake(c) ==
    /\ executing' = executing \ {c}
    /\ UNCHANGED <<poolpc, nextIdx>>

\* The promise of c settles: clean() takes it out of executing, and a pending
\* Promise.race(executing) is fulfilled.
Settle(c) ==
    /\ executing' = executing \ {c}
    /\ poolpc' = IF poolpc = "race" THEN "loop" ELSE poolpc
    /\ nextIdx' = nextIdx

InitCrawl ==
    /\ FetchOff
    /\ PureOff
    /\ ServerOff
    /\ concurrency \in 1 .. MaxLimit
    /\ onlySemester1 \in BOOLEAN
    /\ maxPagesArg \in 0 .. MaxPages
    /\ rpc = "start" /\ maxPage = 0 /\ page = 0
    /\ searchFetches = <<>> /\ searchItems = <<>> /\ itemsList = <<>>
    /\ poolpc = "off" /\ nextIdx = 0 /\ executing = {}
    /\ w = [c \in Codes |-> Worker("idle", "", None, None, None)]
    /\ processed = 0 /\ skipped = 0
    /\ results = <<>> /\ pushOrder = <<>>
    /\ output = None /\ writes = 0 /\ exit = None

\* Lines 356-359 with the handler logging the error and not calling
\* process.exit(1).
Crash_StatusZero(cause) ==
    /\ rpc' = "crashed"
    /\ exit' = [code |-> 0, cause |-> cause]

\* Lines 356-359: an error leaves run(); the process exits with status 1.
Crash(cause) ==
    /\ rpc' = "crashed"
    /\ exit' = [code |-> 1, cause |-> cause]

\* Lines 227-234 with the break of line 230 left out.
PageBody_NoBreak(html) ==
    /\ rpc' = "paging"
    /\ searchItems' = searchItems \o parseSearchPage(html)

\* Lines 227-234: the body of the pagination loop for the page html.
PageBody(html) ==
    LET items == parseSearchPage(html)
    IN  IF items = <<>>
        THEN rpc' = "dedup" /\ searchItems' = searchItems
        ELSE rpc' = "paging" /\ searchItems' = searchItems \o items

\* Lines 217 and 226 with the loop fetching page 1 again.
FirstPageFetches_Refetched == <<1, 1>>

\* Lines 217 and 226: the fetches of search page 1: the loop's round for
\* page 1 takes firstPageHtml.
FirstPageFetches == <<1>>

\* Lines 215-234: the first search page is fetched, maxPage is set, and the
\* loop runs for page 1 on the text already fetched.
RunFirstPage ==
    /\ rpc = "start"
    /\ searchFetches' = FirstPageFetches
    /\ \E got \in Responses(SearchHtmls(1)) :
          IF got.raised
          THEN /\ Crash("search")
               /\ UNCHANGED <<maxPage, page, searchItems>>
          ELSE LET mp == IF maxPagesArg # 0 THEN maxPagesArg ELSE parseMaxPage(got.text)
               IN  /\ maxPage' = mp
                   /\ page' = 1
                   /\ exit' = exit
                   /\ IF 1 <= mp THEN PageBody(got.text)
                      ELSE rpc' = "dedup" /\ searchItems' = searchItems
    /\ UNCHANGED <<configVars, itemsList, poolVars, workVars, output, writes, outsideCrawl>>

\* Lines 223-234: after the sleep, page += 1 and the next search page is
\* fetched and read.
RunNextPage ==
    /\ rpc = "paging"
    /\ page + 1 <= maxPage
    /\ page' = page + 1
    /\ searchFetches' = Append(searchFetches, page + 1)
    /\ \E got \in Responses(SearchHtmls(page + 1)) :
          IF got.raised
          THEN Crash("search") /\ searchItems' = searchItems
          ELSE PageBody(got.text) /\ exit' = exit
    /\ UNCHANGED <<configVars, maxPage, itemsList, poolVars, workVars, output, writes,
                   outsideCrawl>>

\* Line 223: after the sleep, page += 1 and the loop test fails.
RunPagesDone ==
    /\ rpc = "paging"
    /\ ~(page + 1 <= maxPage)
    /\ page' = page + 1
    /\ rpc' = "dedup"
    /\ UNCHANGED <<configVars, maxPage, searchFetches, searchItems, itemsList, poolVars,
                   workVars, endVars, outsideCrawl>>

\* Lines 237-249: deduplication, and asyncPool is called.
RunDedup ==
    /\ rpc = "dedup"
    /\ itemsList' = Dedup(searchItems)
    /\ rpc' = "pool"
    /\ poolpc' = "loop" /\ nextIdx' = 1 /\ executing' = {}
    /\ UNCHANGED <<configVars, searchVars, workVars, endVars, outsideCrawl>>

\* Lines 201-209: one round of asyncPool's loop.
PoolAdmit ==
    /\ rpc = "pool" /\ poolpc = "loop"
    /\ nextIdx <= Len(itemsList)
    /\ LET c == itemsList[nextIdx].code
       IN  /\ executing' = executing \cup {c}
           /\ w' = [w EXCEPT ![c].pc = "queued"]
           /\ nextIdx' = nextIdx + 1
           /\ poolpc' = IF AtLimit(Cardinality(executing \cup {c}), concurrency)
                        THEN "race" ELSE "loop"
    /\ UNCHANGED <<configVars, rpc, searchVars, itemsList, processed, skipped, results,
                   pushOrder, endVars, outsideCrawl>>

\* Lines 201, 211: the loop is over; asyncPool returns Promise.all(results).
PoolLoopDone ==
    /\ rpc = "pool" /\ poolpc = "loop"
    /\ nextIdx > Len(itemsList)
    /\ poolpc' = "all"
    /\ UNCHANGED <<configVars, rpc, searchVars, itemsList, nextIdx, executing, workVars,
                   endVars, outsideCrawl>>

\* Lines 211, 249: the await of asyncPool in run() is over.
PoolReturn ==
    /\ rpc = "pool" /\ poolpc = "all"
    /\ AllSettled
    /\ poolpc' = "returned"
    /\ rpc' = "finish"
    /\ UNCHANGED <<configVars, searchVars, itemsList, nextIdx, executing, workVars,
                   endVars, outsideCrawl>>

\* Lines 250-257: the iterator is called for c and runs to its first await.
WorkerStart(c) ==
    /\ MainAwaits
    /\ w[c].pc = "queued"
    /\ processed' = processed + 1
    /\ IF FilteredOut(onlySemester1, ItemOf(c).offered)
       THEN /\ skipped' = skipped + 1
            /\ w' = [w EXCEPT ![c].pc = "done", ![c].end = "hint"]
            /\ Settle(c)
       ELSE /\ skipped' = skipped
            /\ w' = [w EXCEPT ![c].pc = "detail"]
            /\ UNCHANGED poolVars
    /\ UNCHANGED <<configVars, rpc, searchVars, itemsList, results, pushOrder, endVars,
                   outsideCrawl>>

\* Lines 304-320: the record is pushed and the worker returns.
Emit(c, detail, assess, dates, emails) ==
    /\ results' = Append(results, Record(ItemOf(c), detail, assess, emails))
    /\ pushOrder' = Append(pushOrder, c)
    /\ w' = [w EXCEPT ![c] = Worker("done", "emitted", detail, assess, dates)]
    /\ Settle(c)

\* The worker returns with no record.
Leave(c, end, detail, assess) ==
    /\ w' = [w EXCEPT ![c] = Worker("done", end, detail, assess, None)]
    /\ Settle(c)
    /\ UNCHANGED <<results, pushOrder>>

\* Lines 257-278: the detail page is fetched and filtered.
WorkerDetail(c) ==
    /\ MainAwaits
    /\ w[c].pc = "detail"
    /\ \E got \in Responses(DetailPages) :
          LET verdict == DetailVerdict(onlySemester1, got)
          IN  /\ skipped' = IF verdict = "skip" THEN skipped + 1 ELSE skipped
              /\ IF verdict = "abandon" THEN Leave(c, "detail-failed", got, None)
                 ELSE IF verdict = "skip" THEN Leave(c, "availability", got, None)
                 ELSE /\ w' = [w EXCEPT ![c].pc = "assess", ![c].detail = got]
                      /\ UNCHANGED <<poolVars, results, pushOrder>>
    /\ UNCHANGED <<configVars, rpc, searchVars, itemsList, processed, endVars, outsideCrawl>>

\* Lines 278-292 (and 304-320): the assessment page is fetched and read.
WorkerAssess(c) ==
    /\ MainAwaits
    /\ w[c].pc = "assess"
    /\ \E got \in Responses(AssessDocs) :
          LET verdict == AssessVerdict(got)
          IN  IF verdict = "abandon" THEN Leave(c, "assess-failed", w[c].detail, got)
              ELSE IF verdict = "emit"
              THEN Emit(c, w[c].detail, got, None, EmailsOf(got))
              ELSE /\ w' = [w EXCEPT ![c].pc = "dates", ![c].assess = got]
                   /\ UNCHANGED <<poolVars, results, pushOrder>>
    /\ UNCHANGED <<configVars, rpc, searchVars, itemsList, processed, skipped, endVars,
                   outsideCrawl>>

\* Lines 293-320: the dates-times page is fetched and read, the record pushed.
WorkerDates(c) ==
    /\ MainAwaits
    /\ w[c].pc = "dates"
    /\ \E got \in Responses(DatesDocs) :
          Emit(c, w[c].detail, w[c].assess, got, EmailsOf(got))
    /\ UNCHANGED <<configVars, rpc, searchVars, itemsList, processed, skipped, endVars,
                   outsideCrawl>>

\* Lines 327-354: sort, mkdir, hash, writeFile; run() returns and the process
\* ends with status 0, or mkdir or writeFile rejects and it ends with status 1.
RunWrite ==
    /\ rpc = "finish"
    /\ results' = SortByCode(results)
    /\ \E now \in Clock, written \in BOOLEAN :
          IF written
          THEN /\ output' = Payload(now, SortByCode(results), Len(itemsList), skipped)
               /\ writes' = writes + 1
               /\ rpc' = "done"
               /\ exit' = [code |-> 0, cause |-> "returned"]
          ELSE /\ Crash("filesystem")
               /\ UNCHANGED <<output, writes>>
    /\ UNCHANGED <<configVars, searchVars, itemsList, poolVars, w, processed, skipped,
                   pushOrder, outsideCrawl>>

Next ==
    \/ RunFirstPage
    \/ RunNextPage
    \/ RunPagesDone
    \/ RunDedup
    \/ PoolAdmit
    \/ PoolLoopDone
    \/ PoolReturn
    \/ \E c \in Codes : WorkerStart(c)
    \/ \E c \in Codes : WorkerDetail(c)
    \/ \E c \in Codes : WorkerAssess(c)
    \/ \E c \in Codes : WorkerDates(c)
    \/ RunWrite

Spec == InitCrawl /\ [][Next]_vars

(***************************************************************************)
(* SpecPaging: the pagination phase of run(), lines 215-249, with a        *)
(* configured page count of up to MaxSearchPages.  It is run() up to the   *)
(* call of asyncPool; no later step of run() writes maxPage, page,         *)
(* searchItems or itemsList.                                               *)
(***************************************************************************)
MaxSearchPages == 3

InitPaging ==
    /\ FetchOff
    /\ PureOff
    /\ ServerOff
    /\ concurrency \in 1 .. MaxLimit
    /\ onlySemester1 \in BOOLEAN
    /\ maxPagesArg \in 0 .. MaxSearchPages
    /\ rpc = "start" /\ maxPage = 0 /\ page = 0
    /\ searchFetches = <<>> /\ searchItems = <<>> /\ itemsList = <<>>
    /\ poolpc = "off" /\ nextIdx = 0 /\ executing = {}
    /\ w = [c \in Codes |-> Worker("idle", "", None, None, None)]
    /\ processed = 0 /\ skipped = 0
    /\ results = <<>> /\ pushOrder = <<>>
    /\ output = None /\ writes = 0 /\ exit = None

NextPaging ==
    \/ RunFirstPage
    \/ RunNextPage
    \/ RunPagesDone
    \/ RunDedup

SpecPaging == InitPaging /\ [][NextPaging]_vars

(***************************************************************************)
(* Claims about run().                                                     *)
(***************************************************************************)
\* The workers whose iterator has been called and whose promise has not settled.
InFlight == {c \in Codes : w[c].pc \in {"detail", "assess", "dates"}}

\* The workers asyncPool has created a promise for.
Started == {c \in Codes : w[c].pc # "idle"}

ListCodes == {itemsList[i].code : i \in 1 .. Len(itemsList)}

RecordsOf(recs, c) == {i \in 1 .. Len(recs) : recs[i].code = c}

C3_Ceiling ==
    rpc # "off" =>
        /\ InFlight \subseteq executing
        /\ Cardinality(executing) <= concurrency
        /\ Cardinality(InFlight) <= concurrency

C3_Admission ==
    \A c \in Codes :
        /\ (w[c].pc = "idle" /\ w'[c].pc # "idle") => Cardinality(executing) < concurrency
        /\ (w[c].pc = "queued" /\ w'[c].pc # "queued") => Cardinality(InFlight) < concurrency

\* C3: for every limit L >= 1, at every moment at most L worker pipelines have
\* been started and have not settled, and asyncPool starts a further candidate
\* only when fewer than L are in flight.
C3_BoundedConcurrency == [](C3_Ceiling) /\ [][C3_Admission]_vars

C3_Witness ==
    /\ concurrency = 1
    /\ Len(itemsList) = 2
    /\ poolpc = "race"
    /\ w[itemsList[1].code].pc = "assess"
    /\ w[itemsList[2].code].pc = "idle"

\* C4: the output file is written at most once, and only when every worker has
\* settled: no candidate is left to start and none is in flight.
C4_WriteOnceAtEnd ==
    /\ writes <= 1
    /\ (writes > 0 \/ output # None) =>
          /\ writes = 1 /\ output # None
          /\ executing = {}
          /\ Started = ListCodes
          /\ \A c \in ListCodes : w[c].pc = "done"

C4_Witness ==
    /\ writes = 1
    /\ output # None
    /\ Len(itemsList) = 2
    /\ \A c \in Codes : w[c].pc = "done"
    /\ output.stats.totalSaved = 1
    /\ output.stats.skipped = 1

\* C5: a candidate whose detail fetch raised has no record and no assessment
\* or dates-times fetch, and the failure does not end the crawl: the run goes
\* on to a step it can take, the process ends with an error only for a search
\* page or the file system, and the Snapshot is written only with every
\* candidate settled.
C5_DetailFailureIsolated ==
    /\ \A c \in Codes :
          (rpc # "off" /\ w[c].detail # None /\ w[c].detail.raised) =>
              /\ w[c].pc = "done" /\ w[c].end = "detail-failed"
              /\ w[c].assess = None /\ w[c].dates = None
              /\ RecordsOf(results, c) = {}
              /\ output # None => RecordsOf(output.items, c) = {}
              /\ rpc \notin {"done", "crashed"} => ENABLED Next
    /\ (exit # None /\ exit.code = 1) => exit.cause \in {"search", "filesystem"}
    /\ output # None => \A c \in ListCodes : w[c].pc = "done"

C5_Witness ==
    /\ rpc = "done"
    /\ Len(itemsList) = 2
    /\ w[itemsList[1].code].end = "detail-failed"
    /\ w[itemsList[2].code].end = "emitted"
    /\ Len(output.items) = 1
    /\ output.items[1].code = itemsList[2].code

\* The detail page of c was fetched and passed the semester filter.
PassedDetail(c) ==
    /\ w[c].detail # None
    /\ ~w[c].detail.raised
    /\ ~FilteredOut(onlySemester1, w[c].detail.text.availability)

\* C6: a candidate whose detail page was fetched and passed the semester filter
\* gets exactly one record whatever the assessment and dates-times fetches do
\* (none before its worker has settled, one after); when the assessment fetch
\* raised, the record's tables are empty.
C6_PartialRecord ==
    rpc # "off" =>
        \A c \in Codes :
            /\ Cardinality(RecordsOf(results, c)) <= 1
            /\ (w[c].pc = "done" /\ PassedDetail(c)) =>
                  /\ Cardinality(RecordsOf(results, c)) = 1
                  /\ \A i \in RecordsOf(results, c) :
                        (w[c].assess.raised => results[i].tables = <<>>)
            /\ (output # None /\ PassedDetail(c)) =>
                  Cardinality(RecordsOf(output.items, c)) = 1

C6_Witness ==
    \E c \in Codes :
        /\ w # None
        /\ w[c].pc = "done"
        /\ PassedDetail(c)
        /\ w[c].assess = Raised
        /\ w[c].dates = Raised
        /\ \E i \in RecordsOf(results, c) :
              results[i].tables = <<>> /\ results[i].instructorEmails = <<>>

\* What the responses of the URLs give, whatever the schedule: the candidates
\* that get a record, and the record of each.
WorldEmits(c) ==
    /\ c \in ListCodes
    /\ ~FilteredOut(onlySemester1, ItemOf(c).offered)
    /\ PassedDetail(c)

WorldRecord(c) ==
    [code |-> c, name |-> ItemOf(c).name,
     availability |-> w[c].detail.text.availability,
     tables |-> IF w[c].assess.raised THEN <<>>
                ELSE parseAssessmentTables(w[c].assess.text),
     instructorEmails |->
        IF ~w[c].assess.raised /\ parseSemesterEmails(w[c].assess.text) # <<>>
        THEN parseSemesterEmails(w[c].assess.text)
        ELSE IF w[c].dates.raised THEN <<>>
        ELSE parseSemesterEmails(w[c].dates.text)]

\* The records of the world in ascending order of code.
WorldItems ==
    LET E == {c \in Codes : WorldEmits(c)}
        nth(i) == CHOOSE c \in E : Cardinality({d \in E : d <= c}) = i
    IN  [i \in 1 .. Cardinality(E) |-> WorldRecord(nth(i))]

\* C7: the items written and the version are those the responses of the URLs
\* determine: they depend neither on the order the workers complete in nor on
\* the concurrency limit, and the version is the hash of the items alone.
C7_Deterministic ==
    output # None =>
        /\ output.items = WorldItems
        /\ output.version = Sha256Hex12(JSONStringify(WorldItems))

C7_Witness ==
    /\ output # None
    /\ concurrency = 2
    /\ Len(itemsList) = 2
    /\ itemsList[1].code = 1
    /\ pushOrder = <<2, 1>>
    /\ output.generatedAt = 2
    /\ output.items = WorldItems
    /\ Len(output.items) = 2

\* C9: in every written Snapshot the codes of adjacent items ascend, whatever
\* order the records were pushed in.
C9_SortedByCode ==
    output # None =>
        \A i \in 1 .. Len(output.items) - 1 :
            output.items[i].code <= output.items[i + 1].code

C9_Witness ==
    /\ output # None
    /\ concurrency = 1
    /\ pushOrder = <<2, 1>>
    /\ Len(output.items) = 2
    /\ output.items[1].code = 1
    /\ output.items[2].code = 2

\* Two tokens are the same address when letter case is ignored.
SameIgnoringCase(a, b) == a.addr = b.addr

NoCaseDuplicates(emails) ==
    \A j, k \in 1 .. Len(emails) :
        j # k => ~SameIgnoringCase(emails[j], emails[k])

\* C11: in every emitted record, pushed or written, instructorEmails holds no
\* two entries that are equal when letter case is ignored.
C11_NoCaseDuplicates ==
    rpc # "off" =>
        /\ \A i \in 1 .. Len(results) : NoCaseDuplicates(results[i].instructorEmails)
        /\ output # None =>
              \A i \in 1 .. Len(output.items) :
                  NoCaseDuplicates(output.items[i].instructorEmails)

\* The candidates whose offering hint is a text that does not mention
\* semester 1.
HintedElsewhere == {c \in ListCodes : ItemOf(c).offered = "Semester 2"}

\* C12: with the semester-1-only filter active, a candidate whose hint is a
\* non-empty text that does not mention semester 1 has no detail, assessment
\* or dates-times fetch and no record; its worker ends at the hint test and it
\* is counted in skipped.
C12_HintPrefilter ==
    (rpc # "off" /\ onlySemester1) =>
        /\ \A c \in HintedElsewhere :
              /\ w[c].pc \in {"idle", "queued", "done"}
              /\ w[c].pc = "done" => w[c].end = "hint"
              /\ w[c].detail = None /\ w[c].assess = None /\ w[c].dates = None
              /\ RecordsOf(results, c) = {}
              /\ output # None => (w[c].pc = "done" /\ RecordsOf(output.items, c) = {})
        /\ skipped >= Cardinality({c \in HintedElsewhere : w[c].pc = "done"})

C12_Witness ==
    /\ onlySemester1
    /\ output # None
    /\ Len(itemsList) = 2
    /\ itemsList[1].offered = "Semester 2"
    /\ itemsList[2].offered = "Semester 1"
    /\ w[itemsList[1].code].end = "hint"
    /\ w[itemsList[2].code].end = "emitted"
    /\ output.stats.skipped = 1
    /\ Len(output.items) = 1

\* The search pages whose fetch has been started.
Fetched == SeqRange(searchFetches)

\* The last search-page fetch raised.
SearchRaised == exit # None /\ exit.cause = "search"

\* The search pages whose text was fetched and parsed.
Parsed ==
    {k \in Fetched : ~(SearchRaised /\ k = searchFetches[Len(searchFetches)])}

\* The accumulated stubs read from search page k.
StubsOfPage(k) == {i \in 1 .. Len(searchItems) : searchItems[i].name[1] = k}

\* C13: once a parsed search page k has yielded no stub, the loop is over: no
\* page after k is or has been fetched, the stubs kept are those of pages
\* 1..k-1 (each of which yielded some), and run() goes on to deduplicate them.
C13_EmptyPageHalts ==
    rpc # "off" =>
        \A k \in Parsed :
            StubsOfPage(k) = {} =>
                /\ \A j \in Fetched : j <= k
                /\ rpc \notin {"start", "paging"}
                /\ ~SearchRaised
                /\ \A j \in 1 .. k - 1 : StubsOfPage(j) # {}
                /\ \A i \in 1 .. Len(searchItems) : searchItems[i].name[1] < k
                /\ rpc # "dedup" =>
                      ListCodes = {searchItems[i].code : i \in 1 .. Len(searchItems)}

C13_Witness ==
    /\ maxPagesArg = 3
    /\ maxPage = 3
    /\ searchFetches = <<1, 2>>
    /\ StubsOfPage(1) # {}
    /\ StubsOfPage(2) = {}
    /\ rpc = "pool"
    /\ Len(itemsList) = 1

\* The fetches made for candidate c, each as what it gave.
FetchesOf(c) == {x \in {w[c].detail, w[c].assess, w[c].dates} : x # None}

\* C14: a fetch that raised (its retries exhausted) ends the process only when
\* it is the fetch of the first search page: the process never ends on a raised
\* fetch of a later search page, nor with a raised detail, assessment or
\* dates-times fetch as the cause.
C14_OnlyFirstPageFatal ==
    rpc # "off" =>
        /\ SearchRaised => searchFetches = <<1>>
        /\ (exit # None /\ exit.code # 0) => exit.cause \in {"search", "filesystem"}

\* C15: when the fetch of the first search page raised, the process has ended
\* with a non-zero status, no other fetch was made and no file written, and
\* nothing more happens; a run that no error has left ends with status 0, and
\* only with the file written.
C15_ExitStatus ==
    rpc # "off" =>
        /\ (SearchRaised /\ searchFetches = <<1>>) =>
              /\ rpc = "crashed"
              /\ exit.code # 0
              /\ output = None /\ writes = 0
              /\ \A c \in Codes : FetchesOf(c) = {}
              /\ ~ENABLED Next
        /\ exit = None <=> rpc \notin {"done", "crashed"}
        /\ rpc = "done" => (exit.code = 0 /\ writes = 1 /\ output # None)
        /\ rpc = "crashed" => exit.code # 0
        /\ (exit # None /\ exit.code = 0) => (rpc = "done" /\ writes = 1)

C15_Witness ==
    /\ rpc = "crashed"
    /\ searchFetches = <<1>>
    /\ exit = [code |-> 1, cause |-> "search"]
    /\ output = None

\* C18 as stated: in every written Snapshot, every candidate whose detail
\* fetch raised is counted in stats.skipped, and totalFound is totalSaved plus
\* skipped.
C18_SkippedCountsFailures ==
    output # None =>
        /\ output.stats.skipped >=
              Cardinality({c \in ListCodes : w[c].end = "detail-failed"})
        /\ output.stats.totalFound = output.stats.totalSaved + output.stats.skipped

\* run() has ended: it returned, or an error left it.
Terminated == rpc \in {"done", "crashed"}

\* The steps a worker can still take.
WorkerLeft(c) ==
    CASE w[c].pc = "idle" -> 5
      [] w[c].pc = "queued" -> 4
      [] w[c].pc = "detail" -> 3
      [] w[c].pc = "assess" -> 2
      [] w[c].pc = "dates" -> 1
      [] w[c].pc = "done" -> 0

RECURSIVE SumOver(_, _)
SumOver(S, n) ==
    IF S = {} THEN n
    ELSE LET c == CHOOSE x \in S : TRUE IN SumOver(S \ {c}, n + WorkerLeft(c))

\* More than the steps one phase of run() can take.
PhaseWeight == 5 * NumCodes + MaxPages + 2

\* A bound on the steps run() can still take.
StepsLeft ==
    CASE rpc = "start" -> 5 * PhaseWeight
      [] rpc = "paging" -> 4 * PhaseWeight + (maxPage - page)
      [] rpc = "dedup" -> 3 * PhaseWeight
      [] rpc = "pool" -> 2 * PhaseWeight + SumOver(ListCodes, 0)
                            + (IF poolpc = "all" THEN 0 ELSE 1)
      [] rpc = "finish" -> PhaseWeight
      [] Terminated -> 0

\* A step of asyncPool or of a worker.
PoolStep ==
    \/ PoolAdmit
    \/ PoolLoopDone
    \/ PoolReturn
    \/ \E c \in Codes : WorkerStart(c)
    \/ \E c \in Codes : WorkerDetail(c)
    \/ \E c \in Codes : WorkerAssess(c)
    \/ \E c \in Codes : WorkerDates(c)

\* In every phase before the end, a step of that phase can be taken.
C19_Progress ==
    /\ StepsLeft \in Nat
    /\ rpc \in {"start", "paging", "dedup", "pool", "finish", "done", "crashed"}
    /\ rpc = "start" => ENABLED RunFirstPage
    /\ rpc = "paging" => ENABLED (RunNextPage \/ RunPagesDone)
    /\ rpc = "dedup" => ENABLED RunDedup
    /\ rpc = "pool" => ENABLED PoolStep
    /\ rpc = "finish" => ENABLED RunWrite

C19_Descent == StepsLeft' < StepsLeft

\* C19: every run of the crawl comes to its end, whatever the fetches give
\* (every one raising included): while run() has not ended (the Snapshot
\* written, or the process exited with an error) there is a step it can take,
\* and every step lowers a natural-number bound on the steps left, so that
\* a run whose awaits all complete ends within that many steps.
C19_Terminates == [](C19_Progress) /\ [][C19_Descent]_vars

C19_Witness ==
    /\ rpc = "done"
    /\ StepsLeft = 0
    /\ Len(itemsList) = 2
    /\ \A c \in Codes : w[c].detail = Raised
    /\ output.items = <<>>

\* C20: the search pages are fetched one after the other in ascending order
\* from page 1, each once and at most one in a step, and a page is fetched
\* only with every page before it fetched and parsed (and found to hold a
\* stub): page 1 is never fetched again by the loop.
C20_State ==
    rpc # "off" =>
        /\ \A i \in 1 .. Len(searchFetches) : searchFetches[i] = i
        /\ \A i \in 1 .. Len(searchFetches) - 1 : i \in Parsed /\ StubsOfPage(i) # {}
        /\ \A i \in 1 .. Len(searchItems) : searchItems[i].name[1] \in Parsed
        /\ \A i \in 1 .. Len(searchItems) - 1 :
              searchItems[i].name[1] <= searchItems[i + 1].name[1]

C20_Step ==
    /\ Len(searchFetches') <= Len(searchFetches) + 1
    /\ SubSeq(searchFetches', 1, Len(searchFetches)) = searchFetches

C20_SequentialPages == [](C20_State) /\ [][C20_Step]_vars

C20_Witness ==
    /\ searchFetches = <<1, 2, 3>>
    /\ maxPage = 3
    /\ rpc = "pool"
    /\ \A k \in 1 .. 3 : StubsOfPage(k) # {}

\* The dates-times request of candidate c has been issued.
DatesRequested(c) == w[c].pc = "dates" \/ w[c].dates # None

\* C21: for every candidate whose assessment fetch is over, the dates-times
\* page is requested if and only if the assessment step gave no email, a raised
\* assessment fetch included; a candidate whose assessment page gave an email
\* is emitted with those emails and no dates-times request, and no dates-times
\* request is made before the assessment fetch is over.
C21_DatesFallback ==
    rpc # "off" =>
        \A c \in Codes :
            /\ w[c].assess = None => ~DatesRequested(c)
            /\ w[c].assess # None =>
                  /\ DatesRequested(c) <=> EmailsOf(w[c].assess) = <<>>
                  /\ EmailsOf(w[c].assess) # <<>> =>
                        /\ w[c].pc = "done" /\ w[c].end = "emitted"
                        /\ \A i \in RecordsOf(results, c) :
                              results[i].instructorEmails = EmailsOf(w[c].assess)

C21_Witness ==
    /\ rpc = "done"
    /\ Len(itemsList) = 2
    /\ w[1].assess = Raised /\ w[1].dates = Got(DocContact)
    /\ w[2].assess = Got(DocFull) /\ w[2].dates = None
    /\ w[1].end = "emitted" /\ w[2].end = "emitted"
    /\ Len(output.items) = 2

\* The candidates whose fetched detail page has an availability text that does
\* not mention semester 1.
OfferedElsewhere ==
    {c \in Codes : /\ w[c].detail # None
                   /\ ~w[c].detail.raised
                   /\ w[c].detail.text.availability = "Semester 2"}

\* C22: with the semester-1-only filter active, every record, pushed or
\* written, has an availability text that is empty or mentions semester 1; a
\* candidate whose detail page has another availability text ends at that test
\* whatever its hint was, with no assessment or dates-times fetch and no
\* record, and skipped counts exactly the candidates ended by the two filters.
C22_AvailabilityRecheck ==
    (rpc # "off" /\ onlySemester1) =>
        /\ \A i \in 1 .. Len(results) :
              results[i].availability = "" \/ MentionsSemester1(results[i].availability)
        /\ output # None =>
              \A i \in 1 .. Len(output.items) :
                  \/ output.items[i].availability = ""
                  \/ MentionsSemester1(output.items[i].availability)
        /\ \A c \in OfferedElsewhere :
              /\ w[c].pc = "done" /\ w[c].end = "availability"
              /\ w[c].assess = None /\ w[c].dates = None
              /\ RecordsOf(results, c) = {}
        /\ skipped = Cardinality({c \in Codes : w[c].end \in {"hint", "availability"}})

C22_Witness ==
    /\ onlySemester1
    /\ output # None
    /\ Len(itemsList) = 2
    /\ itemsList[1].offered = "Semester 1"
    /\ itemsList[2].offered = ""
    /\ w[itemsList[1].code].end = "availability"
    /\ w[itemsList[2].code].end = "availability"
    /\ output.stats.skipped = 2
    /\ output.items = <<>>

\* The first search page was fetched and its text read.
FirstPageRead == searchFetches # <<>> /\ ~(SearchRaised /\ Len(searchFetches) = 1)

\* C23 as stated: parseMaxPage never returns 0, so that a run with no
\* configured page count has a page count of at least 1 once the first search
\* page is read.
C23_MaxPageAtLeastOne ==
    (rpc # "off" /\ maxPagesArg = 0 /\ FirstPageRead) => maxPage >= 1

\* C29: in every written Snapshot the codes of the items ascend strictly, so
\* that no two items have the same code; every item is the record of one
\* deduplicated candidate, no two candidates have the same code, and
\* totalSaved, the number of items, is at most totalFound.
C29_UniqueCodes ==
    output # None =>
        /\ \A i, j \in 1 .. Len(output.items) :
              i < j => output.items[i].code < output.items[j].code
        /\ \A i, j \in 1 .. Len(itemsList) :
              i # j => itemsList[i].code # itemsList[j].code
        /\ \A i \in 1 .. Len(output.items) : output.items[i].code \in ListCodes
        /\ output.stats.totalSaved = Len(output.items)
        /\ output.stats.totalFound = Len(itemsList)
        /\ output.stats.totalSaved <= output.stats.totalFound

C29_Witness ==
    /\ output # None
    /\ Len(searchItems) = 2
    /\ searchItems[1].code = searchItems[2].code
    /\ Len(itemsList) = 1
    /\ Len(output.items) = 1
    /\ output.items[1].code = searchItems[1].code
    /\ output.stats.totalFound = 1
    /\ output.stats.totalSaved = 1

(***************************************************************************)
(* SpecServer: the API server, src/server/handbook-api.mjs.                *)
(*                                                                         *)
(* The server is single-threaded: an action is the code that runs between  *)
(* two suspension points. A request is a POST /api/handbook/refresh or a    *)
(* GET /api/handbook; its X-Handbook-Token header is absent or a text. The  *)
(* data file is written by the scraper subprocess alone, at the end of a    *)
(* run that exits with status 0.                                           *)
(***************************************************************************)
MaxReqs == 2
Reqs == 1 .. MaxReqs

HeaderValues == {Undefined, EmptyStr, Str(1), Str(2)}
RefreshTokens == {EmptyStr, Str(1)}

Request(pc, kind, token, status, mtimeMs) ==
    [pc |-> pc, kind |-> kind, token |-> token, status |-> status, mtimeMs |-> mtimeMs]

EmptyCache == [mtimeMs |-> 0, payload |-> None]

\* Lines 124-126 with a missing header let through.
Unauthorized_MissingAllowed(expected, token) ==
    Truthy(expected) /\ Truthy(token) /\ token # expected

\* Lines 124-126: REFRESH_TOKEN && (!token || token !== REFRESH_TOKEN).
Unauthorized(expected, token) ==
    Truthy(expected) /\ (~Truthy(token) \/ token # expected)

InitServer ==
    /\ FetchOff
    /\ PureOff
    /\ CrawlOff
    /\ REFRESH_TOKEN \in RefreshTokens
    /\ reqs = [r \in Reqs |-> Request("new", "", Undefined, 0, 0)]
    /\ cache = EmptyCache
    /\ refreshPromise = None
    /\ proc = << >>
    /\ spawned = <<>>
    /\ dataFile \in {[exists |-> b, mtimeMs |-> 1, version |-> 1] : b \in BOOLEAN}

\* sendJson(res, status, ...); return.
Answer(r, status) == [reqs EXCEPT ![r].pc = "done", ![r].status = status]

\* Line 58 with the test left out: every call starts a run of its own.
JoinsRefresh_Never(promise) == FALSE

\* Line 58: if (refreshPromise) return refreshPromise.
JoinsRefresh(promise) == promise # None

\* Lines 82-96, 123-131 and 57-76: a refresh request arrives and its handler
\* runs to its first await. proc maps each running subprocess, named by the
\* request that spawned it, to the requests whose handlers await its promise.
ReceiveRefresh(r) ==
    /\ reqs[r].pc = "new"
    /\ \E token \in HeaderValues :
          IF Unauthorized(REFRESH_TOKEN, token)
          THEN /\ reqs' = [reqs EXCEPT ![r] = Request("done", "refresh", token, 401, 0)]
               /\ UNCHANGED <<refreshPromise, proc, spawned>>
          ELSE /\ reqs' = [reqs EXCEPT ![r] = Request("refreshing", "refresh", token, 0, 0)]
               /\ IF JoinsRefresh(refreshPromise)
                  THEN /\ proc' = [proc EXCEPT ![refreshPromise.owner] = @ \cup {r}]
                       /\ UNCHANGED <<refreshPromise, spawned>>
                  ELSE /\ refreshPromise' = [owner |-> r]
                       /\ proc' = [p \in DOMAIN proc \cup {r} |->
                                      IF p = r THEN {r} ELSE proc[p]]
                       /\ spawned' = Append(spawned, r)
    /\ UNCHANGED <<REFRESH_TOKEN, cache, dataFile, outsideServer>>

\* Lines 82-96, 107-108 and 41-42: a GET /api/handbook arrives and its handler
\* runs to the await of fs.stat.
ReceiveGet(r) ==
    /\ reqs[r].pc = "new"
    /\ \E token \in HeaderValues :
          reqs' = [reqs EXCEPT ![r] = Request("stat", "get", token, 0, 0)]
    /\ UNCHANGED <<REFRESH_TOKEN, cache, refreshPromise, proc, spawned, dataFile,
                   outsideServer>>

\* Lines 64-79 and 131-132, 142-144: a subprocess exits or fails to start;
\* its promise settles, the finally block clears refreshPromise, and every
\* handler waiting on the promise goes on to loadData or answers 500.
ProcEnd ==
    \E p \in DOMAIN proc :
        /\ proc' = [q \in DOMAIN proc \ {p} |-> proc[q]]
        /\ refreshPromise' = None
        /\ \E how \in {"exit 0", "exit 1", "error"} :
              IF how = "exit 0"
              THEN /\ cache' = EmptyCache
                   /\ dataFile' = [exists |-> TRUE, mtimeMs |-> dataFile.mtimeMs + 1,
                                   version |-> dataFile.version + 1]
                   /\ reqs' = [r \in Reqs |->
                                  IF r \in proc[p]
                                  THEN [reqs[r] EXCEPT !.pc = "stat"] ELSE reqs[r]]
              ELSE /\ UNCHANGED <<cache, dataFile>>
                   /\ reqs' = [r \in Reqs |->
                                  IF r \in proc[p]
                                  THEN [reqs[r] EXCEPT !.pc = "done", !.status = 500]
                                  ELSE reqs[r]]
        /\ UNCHANGED <<REFRESH_TOKEN, spawned, outsideServer>>

\* Lines 42-46: fs.stat settles; the cached payload is served when the file's
\* mtime is the cached one.
LoadStat(r) ==
    /\ reqs[r].pc = "stat"
    /\ reqs' = IF ~dataFile.exists THEN Answer(r, 500)
               ELSE IF cache.payload # None /\ dataFile.mtimeMs = cache.mtimeMs
               THEN Answer(r, 200)
               ELSE [reqs EXCEPT ![r].pc = "read", ![r].mtimeMs = dataFile.mtimeMs]
    /\ UNCHANGED <<REFRESH_TOKEN, cache, refreshPromise, proc, spawned, dataFile,
                   outsideServer>>

\* Lines 46-54: fs.readFile settles; the cache is replaced and the payload
\* served.
LoadRead(r) ==
    /\ reqs[r].pc = "read"
    /\ cache' = [mtimeMs |-> reqs[r].mtimeMs, payload |-> [version |-> dataFile.version]]
    /\ reqs' = Answer(r, 200)
    /\ UNCHANGED <<REFRESH_TOKEN, refreshPromise, proc, spawned, dataFile, outsideServer>>

NextServer ==
    \/ \E r \in Reqs : ReceiveRefresh(r)
    \/ \E r \in Reqs : ReceiveGet(r)
    \/ ProcEnd
    \/ \E r \in Reqs : LoadStat(r)
    \/ \E r \in Reqs : LoadRead(r)

SpecServer == InitServer /\ [][NextServer]_vars

\* A refresh request that does not carry the token the server is set to ask for.
Denied(r) ==
    /\ reqs[r].kind = "refresh"
    /\ REFRESH_TOKEN # EmptyStr
    /\ reqs[r].token # REFRESH_TOKEN

C17_DeniedState ==
    REFRESH_TOKEN # None =>
        /\ \A r \in Reqs :
              Denied(r) => (reqs[r].pc = "done" /\ reqs[r].status = 401)
        /\ \A i \in 1 .. Len(spawned) :
              /\ reqs[spawned[i]].kind = "refresh"
              /\ REFRESH_TOKEN # EmptyStr => reqs[spawned[i]].token = REFRESH_TOKEN

C17_DeniedStep ==
    \A r \in Reqs :
        (reqs[r].pc = "new" /\ Denied(r)') =>
            UNCHANGED <<cache, refreshPromise, proc, spawned, dataFile>>

\* C17: with REFRESH_TOKEN set, a refresh request whose X-Handbook-Token header
\* is missing or is not the token is answered 401 in the step that receives
\* it, which leaves the cache, refreshPromise and the subprocess as they were;
\* every subprocess was started by a refresh request carrying the token.
C17_RefreshGate == [](C17_DeniedState) /\ [][C17_DeniedStep]_vars

C17_Witness ==
    /\ REFRESH_TOKEN = Str(1)
    /\ reqs[1] = Request("done", "refresh", Undefined, 401, 0)
    /\ reqs[2].kind = "refresh" /\ reqs[2].token = Str(1)
    /\ spawned = <<2>>
    /\ DOMAIN proc = {2}

\* The refresh requests whose handlers await a run of the scraper.
Refreshing == {r \in Reqs : reqs[r].pc = "refreshing"}

C30_OneRun ==
    REFRESH_TOKEN # None =>
        /\ Cardinality(DOMAIN proc) <= 1
        /\ refreshPromise = None <=> DOMAIN proc = {}
        /\ refreshPromise # None => DOMAIN proc = {refreshPromise.owner}
        /\ \A p \in DOMAIN proc : proc[p] = Refreshing /\ p \in Refreshing
        /\ DOMAIN proc = {} => Refreshing = {}

C30_SpawnStep ==
    /\ spawned' # spawned =>
          /\ DOMAIN proc = {}
          /\ Len(spawned') = Len(spawned) + 1
    /\ \A r \in Reqs :
          (DOMAIN proc # {} /\ r \notin Refreshing /\ r \in Refreshing') =>
              /\ spawned' = spawned
              /\ DOMAIN proc' = DOMAIN proc
              /\ \A p \in DOMAIN proc : proc'[p] = proc[p] \cup {r}

\* C30: at every moment at most one scraper subprocess is running; a refresh
\* request received while one is running waits on that run and spawns nothing,
\* every handler awaiting a refresh awaits the one running subprocess, and a
\* subprocess is spawned only in a step that starts with none running.
C30_SingleSubprocess == [](C30_OneRun) /\ [][C30_SpawnStep]_vars

C30_Witness ==
    /\ spawned = <<1>>
    /\ DOMAIN proc = {1}
    /\ proc[1] = {1, 2}
    /\ reqs[1].pc = "refreshing" /\ reqs[2].pc = "refreshing"
    /\ refreshPromise = [owner |-> 1]

=============================================================================
